---- MODULE Spec2Model ----
(***************************************************************************)
(* The 3C game loader (src/main.js, src/games/card-flip.js) as a state     *)
(* machine: one GameLoader.initialize run from the page's query            *)
(* parameters to the Running or Failed view, with the theme's image        *)
(* preloads as independent events.                                         *)
(*                                                                         *)
(* A JavaScript string built by a template literal is a sequence of        *)
(* fragments (its literal parts and its substituted values);               *)
(* String.prototype.includes is Includes below.  An optional value         *)
(* (null, undefined, "not yet there") is a sequence of length 0 or 1.      *)
(***************************************************************************)
EXTENDS Integers, Sequences, FiniteSets, TLC

\* Longest cards array of a configuration the environment serves.
MaxCards == 2

\* Clicks on cards in one game.
MaxClicks == 3

\* Lines in the editor's messages input.
MaxLines == 2

\* Clicks on the editor's buttons.
MaxEditorClicks == 2

\* Calls of setItem, removeItem and clear on StorageUtils.
MaxWrites == 3

\* Calls of a debounced function.
MaxCalls == 4

\* Listeners subscribed to one state manager.
MaxListeners == 3

\* Length of the array given to chunk, and the largest size given.
MaxArrayLen == 3
MaxChunkSize == 3

\* Chunks the result array can hold before the allocation fails.
MaxChunks == 5

None == <<>>
Some(v) == <<v>>

--------------------------------------------------------------------------
(* Strings *)

\* The inputs that contain one of the needles the code searches for
\* (case-sensitive: the status text "Not Found" does not contain "not found").
Embeds ==
  { <<"network-quiz", "network">>,
    <<"Failed to resolve module specifier ", "Failed to resolve module">> }

FragmentHas(fragment, needle) ==
  fragment = needle \/ <<fragment, needle>> \in Embeds

Includes(message, needle) ==
  \E i \in 1..Len(message) : FragmentHas(message[i], needle)

\* JavaScript truthiness of a string-or-missing value.
Truthy(opt) == opt # None /\ opt[1] # ""

--------------------------------------------------------------------------
(* Errors *)

Undefined == "undefined"

Error(message) == [name |-> "Error", type |-> Undefined, message |-> message]
TypeError(message) == [name |-> "TypeError", type |-> Undefined, message |-> message]
SyntaxError(message) == [name |-> "SyntaxError", type |-> Undefined, message |-> message]

ConfigError(message, type) ==
  [name |-> "ConfigError",
   type |-> IF type = Undefined THEN "CONFIG_ERROR" ELSE type,
   message |-> message]

Return(v) == [threw |-> FALSE, val |-> Some(v), err |-> None]
Throw(e) == [threw |-> TRUE, val |-> None, err |-> Some(e)]

--------------------------------------------------------------------------
(* The environment: query parameters, the server, the module graph *)

ParamValues(strings) == {None} \cup {Some(s) : s \in strings}

ConfigUrls == ParamValues({"", "blob:preview"})
ConfigNames == ParamValues({"", "daily"})

StatusText(status) ==
  CASE status = 200 -> "OK"
    [] status = 404 -> "Not Found"
    [] status = 500 -> "Internal Server Error"

\* What fetch settles with: a rejection (no connection), or a response.
Responses ==
  { [rejected |-> TRUE, status |-> 0, statusText |-> ""] }
  \cup { [rejected |-> FALSE, status |-> s, statusText |-> StatusText(s)]
         : s \in {200, 404, 500} }

ResponseOk(resp) == resp.status >= 200 /\ resp.status <= 299

GameTypes == {"", "card-flip", "network-quiz"}
Themes == {"", "theme1"}
Titles == {"Lucky Cards"}

\* A card message is its sequence of characters.
CardPool ==
  { [id |-> 1, message |-> <<"H", "i">>],
    [id |-> 2, message |-> <<"a", "<", "b">>] }

CardLists ==
  UNION { [1..n -> CardPool] : n \in 0..MaxCards }

Fields(name, values) ==
  { <<>> } \cup { name :> v : v \in values }

\* The JSON documents the server answers with: null, or an object holding
\* any subset of the GameConfig fields.
Configs ==
  { g @@ t @@ ti @@ c :
      g \in Fields("gameType", GameTypes),
      t \in Fields("theme", Themes),
      ti \in Fields("title", Titles),
      c \in Fields("cards", CardLists) }

\* What response.json() settles with: a parse failure, null, or an object.
Bodies ==
  { [parsed |-> FALSE, isNull |-> FALSE, value |-> <<>>],
    [parsed |-> TRUE, isNull |-> TRUE, value |-> <<>>] }
  \cup { [parsed |-> TRUE, isNull |-> FALSE, value |-> c] : c \in Configs }

Get(config, field) ==
  IF field \in DOMAIN config THEN Some(config[field]) ELSE None

\* What import(modulePath) settles with: a module of the repository, a
\* module without startGame, or a rejection with the host's message.
ImportOutcomes ==
  { [rejected |-> FALSE, module |-> m, reason |-> ""]
      : m \in {"card-flip", "alert-cards", "no-entry"} }
  \cup { [rejected |-> TRUE, module |-> "", reason |-> r]
      : r \in {"resolve", "fetch"} }

HasStartGame(module) == module \in {"card-flip", "alert-cards"}

--------------------------------------------------------------------------
VARIABLES
  configUrl,      \* query parameter configUrl
  configName,     \* query parameter configName
  pc,             \* where the initialize run is
  container,      \* children of #game-container
  fetches,        \* URLs passed to fetch, in order
  response,       \* what the configuration fetch settled with
  config,         \* the parsed configuration
  imports,        \* module paths passed to import(), in order
  imported,       \* what the import settled with
  startGameCalls, \* container contents at each call of startGame
  caught,         \* the error the orchestrator caught
  log,            \* the steps started and ended, in order
  bodyBackground, \* document.body.style.backgroundImage
  cardBack,       \* the --card-back custom property
  img,            \* the two preload images
  preloadLogged,  \* preloadThemeAssets ran to its end
  legacy,         \* the run of loadGame('card-flip') kept in main.js
  cardFlip,       \* the cards of games/card-flip.js and their timers
  editor,         \* the admin editor's form and localStorage
  storage,        \* StorageUtils
  debounced,      \* a function returned by PerformanceUtils.debounce
  stateManager,   \* a state manager made by GameStateUtils.createStateManager
  chunker         \* a call of ArrayUtils.chunk

vars ==
  <<configUrl, configName, pc, container, fetches, response, config, imports,
    imported, startGameCalls, caught, log, bodyBackground, cardBack,
    img, preloadLogged, legacy, cardFlip, editor, storage, debounced,
    stateManager, chunker>>

\* The state of GameLoader and the page it writes.
loaderVars ==
  <<configUrl, configName, pc, container, fetches, response, config, imports,
    imported, startGameCalls, caught, log, bodyBackground, cardBack,
    img, preloadLogged>>

\* All of it but the container.
loaderRest ==
  <<configUrl, configName, pc, fetches, response, config, imports,
    imported, startGameCalls, caught, log, bodyBackground, cardBack,
    img, preloadLogged>>

\* What no step of GameLoader.initialize touches.
asideVars == <<legacy, cardFlip, editor, storage, debounced, stateManager, chunker>>

\* The two utilities of admin/editor.js modelled last.
utilVars == <<stateManager, chunker>>

--------------------------------------------------------------------------
(* The parts of the page beside GameLoader, before they are used *)

LegacyUnstarted == [pc |-> "unstarted", fetched |-> <<>>, config |-> None]

GameUnmounted == [config |-> None, timers |-> <<>>, clicks |-> 0]

EditorBlank ==
  [gameTitle |-> <<>>, themeSelect |-> "", cardMessages |-> << <<>> >>,
   slugInput |-> <<>>, gameNumber |-> <<>>, localStorage |-> None,
   downloads |-> <<>>, previewFrame |-> None, clicks |-> 0,
   earlierBuilds |-> 0, builds |-> <<>>]

StorageEmpty ==
  [_storage |-> <<>>, calls |-> <<>>, lastGet |-> None, lastKeys |-> None]

DebounceIdle == [timeout |-> None, timers |-> <<>>, events |-> <<>>, calls |-> 0]

\* createStateManager({score: 0}): no listener yet.
StateManagerMade ==
  [state |-> 0, listeners |-> <<>>, does |-> <<>>, unsubscribed |-> {},
   lastNotify |-> None]

ChunkNotCalled == [array |-> <<>>, size |-> 1, i |-> 0, chunks |-> <<>>, status |-> "idle"]

--------------------------------------------------------------------------
(* ConfigManager *)

\* urlParams.get('configName') || 'card-flip'
DefaultedName(name) == IF Truthy(name) THEN name[1] ELSE "card-flip"

NamedConfigPath(name) == <<"config/", name, ".json">>

\* Fault: the named configuration is preferred to the override URL.
ConfigSourceNameFirst(url, name) ==
  IF Truthy(name) THEN NamedConfigPath(name[1])
  ELSE IF Truthy(url) THEN <<url[1]>>
  ELSE NamedConfigPath("card-flip")

\* The URL fetchConfigFromUrlOrName passes to fetch.
ConfigSource(url, name) ==
  IF Truthy(url) THEN <<url[1]>> ELSE NamedConfigPath(DefaultedName(name))

HttpError(resp) ==
  Error(<<"HTTP ", ToString(resp.status), ": ", resp.statusText>>)

\* fetchFromUrl up to its return of the pending response.json().
FetchFromUrl(resp) ==
  IF resp.rejected THEN Throw(TypeError(<<"Failed to fetch">>))
  ELSE IF ~ResponseOk(resp) THEN Throw(HttpError(resp))
  ELSE Return("json")

\* fetchFromName up to its return of the pending response.json().
FetchFromName(name, resp) ==
  IF resp.rejected THEN Throw(TypeError(<<"Failed to fetch">>))
  ELSE IF ~ResponseOk(resp)
    THEN IF resp.status = 404
      THEN Throw(Error(<<"Config file '", name, ".json' ", "not found">>))
      ELSE Throw(HttpError(resp))
  ELSE Return("json")

\* response.json()
ResponseJson(body) ==
  IF body.parsed THEN Return(body)
  ELSE Throw(SyntaxError(<<"Unexpected token < in JSON at position 0">>))

\* Fault: the error is thrown on as it was caught.
WrapConfigErrorRethrown(result) == result

\* The catch clause of fetchConfigFromUrlOrName.
WrapConfigError(result) ==
  IF result.threw
    THEN Throw(ConfigError(<<"Failed to load configuration: ">> \o result.err[1].message,
                           result.err[1].type))
    ELSE result

\* fetchConfigFromUrlOrName from the settling of fetch to the await of
\* response.json().
FetchConfigFromUrlOrName(url, name, resp) ==
  WrapConfigError(IF Truthy(url) THEN FetchFromUrl(resp)
                  ELSE FetchFromName(DefaultedName(name), resp))

\* fetchConfigFromUrlOrName from the settling of response.json() on.
ParseConfig(body) == WrapConfigError(ResponseJson(body))

Falsy(body, field) == ~Truthy(Get(body.value, field))

\* Fault: a field counts as given when its key is there, whatever it holds.
ValidateConfigKeyOnly(body) ==
  IF body.isNull
    THEN Throw(TypeError(<<"Cannot read properties of null (reading '", "gameType", "')">>))
    ELSE LET missing == SelectSeq(<<"gameType">>, LAMBDA f : f \notin DOMAIN body.value)
         IN IF Len(missing) > 0
              THEN Throw(Error(<<"Missing required config fields: ">> \o missing))
              ELSE Return(TRUE)

ValidateConfig(body) ==
  IF body.isNull
    THEN Throw(TypeError(<<"Cannot read properties of null (reading '", "gameType", "')">>))
    ELSE LET missing == SelectSeq(<<"gameType">>, LAMBDA f : Falsy(body, f))
         IN IF Len(missing) > 0
              THEN Throw(Error(<<"Missing required config fields: ">> \o missing))
              ELSE Return(TRUE)

--------------------------------------------------------------------------
(* ThemeManager *)

ThemeAsset(themeName, file) == <<"assets/themes/", themeName, "/", file>>

CssUrl(path) == <<"url('">> \o path \o <<"')">>

NoImage == [state |-> "idle", src |-> <<>>]

SetBackground(themeName) == Some(CssUrl(ThemeAsset(themeName, "bg.png")))

SetCardBack(themeName) == Some(CssUrl(ThemeAsset(themeName, "card-back.png")))

\* preloadThemeAssets up to its await: both images are requested.
PreloadThemeAssets(themeName) ==
  [i \in 1..2 |->
     [state |-> "pending",
      src |-> ThemeAsset(themeName, IF i = 1 THEN "bg.png" ELSE "card-back.png")]]

\* Fault: only a missing theme is skipped, an empty name is applied.
ApplyThemeUnlessMissing(themeName, page) ==
  IF themeName = None THEN page
  ELSE [bodyBackground |-> SetBackground(themeName[1]),
        cardBack |-> SetCardBack(themeName[1]),
        img |-> PreloadThemeAssets(themeName[1])]

\* applyTheme(themeName) on the page: what it leaves in the body's
\* background, in --card-back and in the preload images.
ApplyTheme(themeName, page) ==
  IF ~Truthy(themeName) THEN page
  ELSE [bodyBackground |-> SetBackground(themeName[1]),
        cardBack |-> SetCardBack(themeName[1]),
        img |-> PreloadThemeAssets(themeName[1])]

\* Fault: an image that fails to load rejects its promise, so that
\* Promise.all is fulfilled by loaded images only.
ImagesAllLoaded(images) ==
  \A i \in 1..2 : images[i].state = "loaded"

\* Promise.all(preloadPromises) is fulfilled: onload or onerror has resolved
\* the promise of each image.
ImagesSettled(images) ==
  \A i \in 1..2 : images[i].state \in {"loaded", "failed"}

--------------------------------------------------------------------------
(* Game modules *)

EscapeChar(c) ==
  CASE c = "&" -> <<"&amp;">>
    [] c = "\"" -> <<"&quot;">>
    [] c = "<" -> <<"&lt;">>
    [] c = ">" -> <<"&gt;">>
    [] OTHER -> <<c>>

\* Fault: the message goes into the markup as it is.
EscapeHtmlSkipped(s) == s

RECURSIVE EscapeHtml(_)
EscapeHtml(s) ==
  IF s = <<>> THEN <<>> ELSE EscapeChar(Head(s)) \o EscapeHtml(Tail(s))

\* The text the browser shows for markup assigned to innerHTML: a "<" opens
\* a tag that runs to the next ">" (or to the end) and shows nothing, and a
\* character reference shows its character.
DecodeEntity(c) ==
  CASE c = "&amp;" -> "&"
    [] c = "&quot;" -> "\""
    [] c = "&lt;" -> "<"
    [] c = "&gt;" -> ">"
    [] OTHER -> c

RECURSIVE SkipTag(_)
SkipTag(s) ==
  IF s = <<>> THEN <<>>
  ELSE IF Head(s) = ">" THEN Tail(s)
  ELSE SkipTag(Tail(s))

RECURSIVE HtmlText(_)
HtmlText(s) ==
  IF s = <<>> THEN <<>>
  ELSE IF Head(s) = "<" THEN HtmlText(SkipTag(Tail(s)))
  ELSE <<DecodeEntity(Head(s))>> \o HtmlText(Tail(s))

ForEachOfUndefined ==
  TypeError(<<"Cannot read properties of undefined (reading 'forEach')">>)

Rendered(children) == [threw |-> FALSE, err |-> None, container |-> children]
Aborted(e, children) == [threw |-> TRUE, err |-> Some(e), container |-> children]

\* startGame of games/card-flip.js
CardFlipStartGame(cfg, children) ==
  LET title == [kind |-> "title",
                text |-> IF Truthy(Get(cfg, "title")) THEN cfg.title ELSE "Card Flip"]
      withTitle == Append(children, title)
  IN IF "cards" \notin DOMAIN cfg THEN Aborted(ForEachOfUndefined, withTitle)
     ELSE Rendered(Append(withTitle,
            [kind |-> "wrapper",
             cards |-> [i \in 1..Len(cfg.cards) |->
                          [dataId |-> Some(cfg.cards[i].id),
                           front |-> EscapeHtml(cfg.cards[i].message),
                           alerts |-> None,
                           flipped |-> FALSE]]]))

\* startGame of the alert variant kept in main.js
AlertStartGame(cfg, children) ==
  IF "cards" \notin DOMAIN cfg THEN Aborted(ForEachOfUndefined, <<>>)
  ELSE Rendered(<<[kind |-> "wrapper",
                   cards |-> [i \in 1..Len(cfg.cards) |->
                                [dataId |-> None,
                                 front |-> <<>>,
                                 alerts |-> Some(cfg.cards[i].message),
                                 flipped |-> FALSE]]]>>)

StartGame(module, cfg, children) ==
  IF module = "card-flip" THEN CardFlipStartGame(cfg, children)
  ELSE AlertStartGame(cfg, children)

--------------------------------------------------------------------------
(* GameManager *)

ModulePath(gameType) == <<"./games/", gameType, ".js">>

\* The message of the host's rejection of import().
ImportFailure(gameType, reason) ==
  IF reason = "resolve"
    THEN TypeError(<<"Failed to resolve module specifier ", "'">> \o ModulePath(gameType) \o <<"'">>)
    ELSE TypeError(<<"Failed to fetch dynamically imported module: ">> \o ModulePath(gameType))

\* The try block of loadGameModule.
ImportAndCheck(gameType, outcome) ==
  IF outcome.rejected THEN Throw(ImportFailure(gameType, outcome.reason))
  ELSE IF ~HasStartGame(outcome.module)
    THEN Throw(Error(<<"Game module '", gameType, "' missing startGame function">>))
  ELSE Return(outcome.module)

LoadGameModule(gameType, outcome) ==
  LET attempt == ImportAndCheck(gameType, outcome)
  IN IF attempt.threw /\ Includes(attempt.err[1].message, "Failed to resolve module")
       THEN Throw(Error(<<"Game module '", gameType, ".js' ", "not found">>))
       ELSE attempt

\* Fault: the container is handed to startGame as it is.
ClearContainerSkipped(children) == children

\* container.innerHTML = ''
ClearContainer(children) == <<>>

\* initializeGame; atCall is the container as startGame received it.
InitializeGame(module, cfg, children) ==
  LET atCall == ClearContainer(children)
      r == StartGame(module, cfg, atCall)
      outcome == IF r.threw
                   THEN Aborted(Error(<<"Failed to initialize game: ">> \o r.err[1].message),
                                r.container)
                   ELSE r
  IN [threw |-> outcome.threw, err |-> outcome.err,
      container |-> outcome.container, atCall |-> atCall]

--------------------------------------------------------------------------
(* UIManager *)

NonEmpty(text) == \E i \in 1..Len(text) : text[i] # ""

\* Fault: the error view is added after the children the container has.
ShowErrorAppended(children, message, details) ==
  Append(children,
         [kind |-> "error",
          message |-> message,
          details |-> IF NonEmpty(details) THEN Some(details) ELSE None])

\* showError and showLoading assign the container's innerHTML: whatever
\* children it had are replaced.
ShowError(children, message, details) ==
  << [kind |-> "error",
      message |-> message,
      details |-> IF NonEmpty(details) THEN Some(details) ELSE None] >>

ShowLoading(children, message) == << [kind |-> "loading", message |-> message] >>

--------------------------------------------------------------------------
(* GameLoader *)

GenericMessage == "Failed to load game. Please try again."
ConfigMessage == "Game configuration error. Please check the game settings."
MissingMessage == "Game files are missing. Please check the installation."
NetworkMessage == "Network error. Please check your connection and try again."

\* Fault: the message is chosen from the message text alone.
UserMessageByTextOnly(error) ==
  IF Includes(error.message, "not found") THEN MissingMessage
  ELSE IF Includes(error.message, "network") THEN NetworkMessage
  ELSE IF error.name = "ConfigError" THEN ConfigMessage
  ELSE GenericMessage

\* The catch clause of initialize: the message for the user.
UserMessage(error) ==
  IF error.name = "ConfigError" THEN ConfigMessage
  ELSE IF Includes(error.message, "not found") THEN MissingMessage
  ELSE IF Includes(error.message, "network") THEN NetworkMessage
  ELSE GenericMessage

Steps ==
  <<"fetchConfig", "validateConfig", "applyTheme", "loadGameModule", "initializeGame">>

Started(step) == <<step, "start">>
Ended(step, threw) == <<step, IF threw THEN "fail" ELSE "ok">>

LoaderInit ==
  /\ configUrl \in ConfigUrls
  /\ configName \in ConfigNames
  /\ pc = "idle"
  /\ container = <<>>
  /\ fetches = <<>>
  /\ response = None
  /\ config = None
  /\ imports = <<>>
  /\ imported = None
  /\ startGameCalls = <<>>
  /\ caught = None
  /\ log = <<>>
  /\ bodyBackground = None
  /\ cardBack = None
  /\ img = [i \in 1..2 |-> NoImage]
  /\ preloadLogged = FALSE

\* The loader left alone: a page that uses another part of the repository.
LoaderUnused ==
  /\ LoaderInit
  /\ configUrl = None
  /\ configName = None

\* The page as the script starts: nothing but the loader is in use.
Init ==
  /\ LoaderInit
  /\ legacy = LegacyUnstarted
  /\ cardFlip = GameUnmounted
  /\ editor = EditorBlank
  /\ storage = StorageEmpty
  /\ debounced = DebounceIdle
  /\ stateManager = StateManagerMade
  /\ chunker = ChunkNotCalled

\* Fault: no catch clause: the promise of initialize is rejected and the
\* container keeps what it held.
CatchMissing(error, children) ==
  /\ caught' = Some(error)
  /\ container' = children
  /\ pc' = "rejected"

\* Fault: the catch clause starts the run again.
CatchAndRetry(error, children) ==
  /\ caught' = Some(error)
  /\ container' = ShowError(children, UserMessage(error), error.message)
  /\ pc' = "idle"

\* The catch clause of initialize, entered with the container as the
\* failing step left it.
Catch(error, children) ==
  /\ caught' = Some(error)
  /\ container' = ShowError(children, UserMessage(error), error.message)
  /\ pc' = "failed"

\* initialize up to its first await: the loading view and the fetch.
Initialize ==
  /\ pc = "idle"
  /\ container' = ShowLoading(container, "Loading configuration...")
  /\ fetches' = Append(fetches, ConfigSource(configUrl, configName))
  /\ log' = Append(log, Started("fetchConfig"))
  /\ pc' = "fetching"
  /\ UNCHANGED <<configUrl, configName, response, config, imports, imported,
                 startGameCalls, caught, bodyBackground, cardBack, img,
                 preloadLogged>>
  /\ UNCHANGED asideVars

\* Fault: a failed fetch is reported and the run goes on to parse.
FetchSettlesNoAbort ==
  /\ pc = "fetching"
  /\ \E resp \in Responses :
       LET r == FetchConfigFromUrlOrName(configUrl, configName, resp)
       IN /\ response' = Some(resp)
          /\ pc' = "parsing"
          /\ IF r.threw
               THEN /\ caught' = Some(r.err[1])
                    /\ container' = ShowError(container, UserMessage(r.err[1]),
                                              r.err[1].message)
                    /\ log' = Append(log, Ended("fetchConfig", TRUE))
               ELSE UNCHANGED <<container, caught, log>>
  /\ UNCHANGED <<configUrl, configName, fetches, config, imports, imported,
                 startGameCalls, bodyBackground, cardBack, img, preloadLogged>>
  /\ UNCHANGED asideVars

\* fetch settles; a response that is ok leaves response.json() pending.
FetchSettles ==
  /\ pc = "fetching"
  /\ \E resp \in Responses :
       LET r == FetchConfigFromUrlOrName(configUrl, configName, resp)
       IN /\ response' = Some(resp)
          /\ IF r.threw
               THEN /\ Catch(r.err[1], container)
                    /\ log' = Append(log, Ended("fetchConfig", TRUE))
               ELSE /\ pc' = "parsing"
                    /\ UNCHANGED <<container, caught, log>>
  /\ UNCHANGED <<configUrl, configName, fetches, config, imports, imported,
                 startGameCalls, bodyBackground, cardBack, img, preloadLogged>>
  /\ UNCHANGED asideVars

\* response.json() settles; then, without a further wait, validateConfig,
\* applyTheme and the start of the module import.
JsonSettles ==
  /\ pc = "parsing"
  /\ \E body \in Bodies :
       LET parsed == ParseConfig(body)
           valid == ValidateConfig(body)
           page == ApplyTheme(Get(body.value, "theme"),
                              [bodyBackground |-> bodyBackground,
                               cardBack |-> cardBack,
                               img |-> img])
       IN IF parsed.threw
            THEN /\ Catch(parsed.err[1], container)
                 /\ log' = Append(log, Ended("fetchConfig", TRUE))
                 /\ UNCHANGED <<config, imports, bodyBackground, cardBack, img>>
            ELSE /\ config' = Some(body)
                 /\ IF valid.threw
                      THEN /\ Catch(valid.err[1], container)
                           /\ log' = log \o <<Ended("fetchConfig", FALSE),
                                              Started("validateConfig"),
                                              Ended("validateConfig", TRUE)>>
                           /\ UNCHANGED <<imports, bodyBackground, cardBack, img>>
                      ELSE /\ bodyBackground' = page.bodyBackground
                           /\ cardBack' = page.cardBack
                           /\ img' = page.img
                           /\ container' =
                                ShowLoading(ShowLoading(container, "Applying theme..."),
                                            "Loading game module...")
                           /\ imports' = Append(imports, ModulePath(body.value.gameType))
                           /\ log' = log \o <<Ended("fetchConfig", FALSE),
                                              Started("validateConfig"),
                                              Ended("validateConfig", FALSE),
                                              Started("applyTheme"),
                                              Ended("applyTheme", FALSE),
                                              Started("loadGameModule")>>
                           /\ pc' = "importing"
                           /\ UNCHANGED caught
  /\ UNCHANGED <<configUrl, configName, fetches, response, imported,
                 startGameCalls, preloadLogged>>
  /\ UNCHANGED asideVars

\* import() settles; then, without a further wait, initializeGame.
ImportSettles ==
  /\ pc = "importing"
  /\ \E outcome \in ImportOutcomes :
       LET cfg == config[1].value
           loaded == LoadGameModule(cfg.gameType, outcome)
           game == InitializeGame(loaded.val[1], cfg,
                                  ShowLoading(container, "Initializing game..."))
       IN /\ imported' = Some(outcome)
          /\ IF loaded.threw
               THEN /\ Catch(loaded.err[1], container)
                    /\ log' = Append(log, Ended("loadGameModule", TRUE))
                    /\ UNCHANGED startGameCalls
               ELSE /\ startGameCalls' = Append(startGameCalls, game.atCall)
                    /\ log' = log \o <<Ended("loadGameModule", FALSE),
                                       Started("initializeGame"),
                                       Ended("initializeGame", game.threw)>>
                    /\ IF game.threw
                         THEN Catch(game.err[1], game.container)
                         ELSE /\ container' = game.container
                              /\ pc' = "running"
                              /\ UNCHANGED caught
  /\ UNCHANGED <<configUrl, configName, fetches, response, config, imports,
                 bodyBackground, cardBack, img, preloadLogged>>
  /\ UNCHANGED asideVars

\* onload or onerror of one preload image; the last one lets
\* preloadThemeAssets run to its end.
ImageSettles ==
  /\ \E i \in 1..2, s \in {"loaded", "failed"} :
       /\ img[i].state = "pending"
       /\ img' = [img EXCEPT ![i].state = s]
  /\ preloadLogged' = ImagesSettled(img')
  /\ UNCHANGED <<configUrl, configName, pc, container, fetches, response,
                 config, imports, imported, startGameCalls, caught, log,
                 bodyBackground, cardBack>>
  /\ UNCHANGED asideVars

Next ==
  \/ Initialize
  \/ FetchSettles
  \/ JsonSettles
  \/ ImportSettles
  \/ ImageSettles

Spec == Init /\ [][Next]_vars

--------------------------------------------------------------------------
(* loadGame('card-flip'), the loader kept below GameLoader in main.js *)

\* The documents config/card-flip.json is answered with in this run.
LegacyBodies ==
  { b \in Bodies :
      \/ ~b.parsed
      \/ b.isNull
      \/ /\ DOMAIN b.value \subseteq {"gameType", "cards"}
         /\ Get(b.value, "gameType") = Some("card-flip")
         /\ "cards" \in DOMAIN b.value => Len(b.value.cards) = 1 }

\* <p>Failed to load game.</p>
LegacyFailed == << [kind |-> "p", text |-> "Failed to load game."] >>

\* The catch clause of loadGame.
LegacyCatch ==
  /\ container' = LegacyFailed
  /\ legacy' = [legacy EXCEPT !.pc = "failed"]

\* The call loadGame('card-flip'), made after GameLoader.initialize() has
\* returned its promise, up to its await of the configuration.
LegacyLoadGame ==
  /\ pc # "idle"
  /\ legacy.pc = "unstarted"
  /\ legacy' = [legacy EXCEPT !.pc = "fetching",
                              !.fetched = NamedConfigPath("card-flip")]
  /\ UNCHANGED <<utilVars, loaderVars, cardFlip, editor, storage, debounced>>

\* fetch(...).then(res => res.json()) settles; then, without a further
\* wait, the import of the module config.gameType names.
LegacyConfigSettles ==
  /\ legacy.pc = "fetching"
  /\ \E resp \in Responses, body \in LegacyBodies :
       LET r == IF resp.rejected THEN Throw(TypeError(<<"Failed to fetch">>))
                ELSE ResponseJson(body)
       IN IF r.threw \/ body.isNull
            THEN LegacyCatch
            ELSE /\ legacy' = [legacy EXCEPT !.pc = "importing",
                                             !.config = Some(body.value)]
                 /\ UNCHANGED container
  /\ UNCHANGED <<utilVars, loaderRest, cardFlip, editor, storage, debounced>>

\* import() settles; then, without a further wait, module.startGame on the
\* container as it is.
LegacyImportSettles ==
  /\ legacy.pc = "importing"
  /\ \E outcome \in ImportOutcomes :
       LET r == StartGame(outcome.module, legacy.config[1], container)
       IN IF outcome.rejected \/ ~HasStartGame(outcome.module)
            THEN LegacyCatch
            ELSE IF r.threw
              THEN LegacyCatch
              ELSE /\ container' = r.container
                   /\ legacy' = [legacy EXCEPT !.pc = "running"]
  /\ UNCHANGED <<utilVars, loaderRest, cardFlip, editor, storage, debounced>>

\* The page main.js is loaded into: both start calls are made.
PageNext ==
  \/ Next
  \/ LegacyLoadGame
  \/ LegacyConfigSettles
  \/ LegacyImportSettles

PageSpec == Init /\ [][PageNext]_vars

--------------------------------------------------------------------------
(* games/card-flip.js: the click handler of a card *)

DefaultDisplayMs == 2500

\* config.settings of the configurations the game is started with.
SettingsObjects ==
  { o @@ d : o \in Fields("stayOpen", BOOLEAN), d \in Fields("displayMs", {0, 2200}) }

GameConfigs ==
  { ("gameType" :> "card-flip") @@ ("cards" :> c) @@ st :
      c \in CardLists, st \in Fields("settings", SettingsObjects) }

\* Fault: any settings object keeps the cards open.
StayOpenWithSettings(cfg) == "settings" \in DOMAIN cfg

\* (config.settings && config.settings.stayOpen) || false
StayOpen(cfg) ==
  /\ "settings" \in DOMAIN cfg
  /\ Get(cfg.settings, "stayOpen") = Some(TRUE)

\* (config.settings && config.settings.displayMs) || 2500
DisplayMs(cfg) ==
  IF /\ "settings" \in DOMAIN cfg
     /\ "displayMs" \in DOMAIN cfg.settings
     /\ cfg.settings.displayMs # 0
    THEN cfg.settings.displayMs
    ELSE DefaultDisplayMs

\* The card elements in the wrapper startGame appended last.
CardElements(children) ==
  IF children = <<>> THEN <<>> ELSE children[Len(children)].cards

SetFlipped(children, i, on) ==
  [children EXCEPT ![Len(children)].cards[i].flipped = on]

\* startGame(config, container) of games/card-flip.js on the empty container.
CardFlipMounts ==
  /\ cardFlip.config = None
  /\ \E cfg \in GameConfigs :
       /\ container' = CardFlipStartGame(cfg, container).container
       /\ cardFlip' = [cardFlip EXCEPT !.config = Some(cfg)]
  /\ UNCHANGED <<utilVars, loaderRest, legacy, editor, storage, debounced>>

\* The click listener of card i.
ClickCard(i) ==
  /\ cardFlip.config # None
  /\ i \in 1..Len(CardElements(container))
  /\ cardFlip.clicks < MaxClicks
  /\ container' = SetFlipped(container, i, TRUE)
  /\ cardFlip' =
       [cardFlip EXCEPT
          !.clicks = @ + 1,
          !.timers = IF StayOpen(cardFlip.config[1]) THEN @
                     ELSE Append(@, [card |-> i, delay |-> DisplayMs(cardFlip.config[1])])]
  /\ UNCHANGED <<utilVars, loaderRest, legacy, editor, storage, debounced>>

Click == \E i \in 1..Len(CardElements(container)) : ClickCard(i)

\* The timer due first runs its callback; the timers of one game have the
\* same delay, so they are due in the order they were set.
TimerFires ==
  /\ cardFlip.timers # <<>>
  /\ container' = SetFlipped(container, Head(cardFlip.timers).card, FALSE)
  /\ cardFlip' = [cardFlip EXCEPT !.timers = Tail(@)]
  /\ UNCHANGED <<utilVars, loaderRest, legacy, editor, storage, debounced>>

GameInit ==
  /\ Init
  /\ configUrl = None
  /\ configName = None

GameNext ==
  \/ CardFlipMounts
  \/ Click
  \/ TimerFires

GameSpec == GameInit /\ [][GameNext]_vars

\* The event loop runs every timer that is due.
GameFairSpec == GameSpec /\ WF_vars(TimerFires)

--------------------------------------------------------------------------
(* admin/editor.js: the form and its buttons *)

IsSpace(c) == c \in {" ", "\t"}

RECURSIVE TrimStart(_)
TrimStart(s) ==
  IF s = <<>> \/ ~IsSpace(Head(s)) THEN s ELSE TrimStart(Tail(s))

RECURSIVE TrimEnd(_)
TrimEnd(s) ==
  IF s = <<>> \/ ~IsSpace(s[Len(s)]) THEN s ELSE TrimEnd(SubSeq(s, 1, Len(s) - 1))

\* Fault: only the leading space is cut.
TrimStartOnly(s) == TrimStart(s)

\* String.prototype.trim
Trim(s) == TrimEnd(TrimStart(s))

\* filter(Boolean) on strings: the empty string goes.
FilterBoolean(strings) == SelectSeq(strings, LAMBDA t : t # <<>>)

MapTrim(strings) == [i \in 1..Len(strings) |-> Trim(strings[i])]

\* messages.map((m, i) => ({ id: i + 1, frontImage, message: m }))
MapCards(messages) ==
  [i \in 1..Len(messages) |->
     [id |-> i, frontImage |-> <<"card", ToString(i), ".png">>, message |-> messages[i]]]

DefaultTitle ==
  <<"P", "i", "c", "k", " ", "Y", "o", "u", "r", " ", "3", "C", " ", "C", "a", "r", "d">>

LowerCase(c) ==
  CASE c = "C" -> "c"
    [] c = "P" -> "p"
    [] c = "Y" -> "y"
    [] OTHER -> c

IsSlugChar(c) ==
  c \in {"a", "b", "c", "d", "i", "k", "o", "p", "r", "u", "y", "3"}

RECURSIVE DropOthers(_)
DropOthers(s) ==
  IF s = <<>> \/ IsSlugChar(Head(s)) THEN s ELSE DropOthers(Tail(s))

\* replace(/[^a-z0-9]+/g, '-')
RECURSIVE Dashed(_)
Dashed(s) ==
  IF s = <<>> THEN <<>>
  ELSE IF IsSlugChar(Head(s)) THEN <<Head(s)>> \o Dashed(Tail(s))
  ELSE <<"-">> \o Dashed(DropOthers(s))

\* replace(/(^-|-$)/g, '')
StripDashes(s) ==
  LET front == IF s # <<>> /\ Head(s) = "-" THEN Tail(s) ELSE s
  IN IF front # <<>> /\ front[Len(front)] = "-"
       THEN SubSeq(front, 1, Len(front) - 1)
       ELSE front

\* StringUtils.formatSlug
FormatSlug(name) ==
  StripDashes(Dashed([i \in 1..Len(name) |-> LowerCase(name[i])]))

Digits == <<"0", "1", "2", "3", "4", "5", "6", "7", "8", "9">>

DigitValue(d) == (CHOOSE k \in 1..10 : Digits[k] = d) - 1

\* parseInt(text, 10) of a string of digits
RECURSIVE ParseInt(_)
ParseInt(text) ==
  IF text = <<>> THEN 0
  ELSE 10 * ParseInt(SubSeq(text, 1, Len(text) - 1)) + DigitValue(text[Len(text)])

\* String(n)
RECURSIVE DecimalString(_)
DecimalString(n) ==
  IF n < 10 THEN <<Digits[n + 1]>>
  ELSE DecimalString(n \div 10) \o <<Digits[(n % 10) + 1]>>

\* padStart(3, '0')
RECURSIVE PadStart3(_)
PadStart3(text) ==
  IF Len(text) >= 3 THEN text ELSE PadStart3(<<"0">> \o text)

\* Fault: the number is returned and not written back.
NextGameNumberUnstored(item) ==
  LET n == ParseInt(IF item # None /\ item[1] # <<>> THEN item[1] ELSE <<"0">>) + 1
  IN [n |-> n, item |-> item]

\* nextGameNumber: the number returned and the item written.
NextGameNumber(item) ==
  LET n == ParseInt(IF item # None /\ item[1] # <<>> THEN item[1] ELSE <<"0">>) + 1
  IN [n |-> n, item |-> Some(DecimalString(n))]

\* buildConfig on the form as it stands: what it returns and what it writes.
BuildConfig(form) ==
  LET title == IF Trim(form.gameTitle) # <<>> THEN Trim(form.gameTitle) ELSE DefaultTitle
      theme == IF form.themeSelect # "" THEN form.themeSelect ELSE "theme1"
      messages == FilterBoolean(MapTrim(form.cardMessages))
      slug == FormatSlug(title)
      next == NextGameNumber(form.localStorage)
      gameNumber == <<"game-">> \o PadStart3(DecimalString(next.n))
  IN [meta |-> [title |-> title, slug |-> slug, gameNumber |-> gameNumber, theme |-> theme],
      config |->
        ("gameType" :> "card-flip") @@ ("theme" :> theme) @@ ("title" :> title)
        @@ ("cards" :> MapCards(messages))
        @@ ("settings" :> [cardFlipSpeed |-> 500, displayMs |-> 2200,
                           stayOpen |-> FALSE, allowReplay |-> TRUE]),
      form |-> [form EXCEPT !.slugInput = slug,
                            !.gameNumber = gameNumber,
                            !.localStorage = next.item,
                            !.builds = Append(@, gameNumber)]]

Download(form, filename, content) ==
  [form EXCEPT !.downloads = Append(@, [filename |-> filename, content |-> content]),
               !.clicks = @ + 1]

\* The first click listener of #generateConfig.
GenerateConfigClick ==
  /\ editor.clicks < MaxEditorClicks
  /\ editor' =
       Download(editor, <<"card-flip.json">>,
                ("gameType" :> "card-flip") @@ ("theme" :> "theme1")
                @@ ("title" :> DefaultTitle)
                @@ ("cards" :> MapCards(FilterBoolean(editor.cardMessages)))
                @@ ("settings" :> [cardFlipSpeed |-> 500, allowReplay |-> TRUE]))
  /\ UNCHANGED <<utilVars, loaderVars, legacy, cardFlip, storage, debounced>>

\* The click listener of generateBtn.
GenerateClick ==
  /\ editor.clicks < MaxEditorClicks
  /\ LET b == BuildConfig(editor)
     IN editor' = Download(b.form, b.meta.gameNumber \o <<".json">>, b.config)
  /\ UNCHANGED <<utilVars, loaderVars, legacy, cardFlip, storage, debounced>>

\* The click listener of saveLocalBtn.
SaveLocalClick ==
  /\ editor.clicks < MaxEditorClicks
  /\ LET b == BuildConfig(editor)
     IN editor' = Download(b.form, <<"config-">> \o b.meta.gameNumber \o <<".json">>,
                           b.config)
  /\ UNCHANGED <<utilVars, loaderVars, legacy, cardFlip, storage, debounced>>

\* The click listener of previewBtn.
PreviewClick ==
  /\ editor.clicks < MaxEditorClicks
  /\ LET b == BuildConfig(editor)
     IN editor' = [b.form EXCEPT !.previewFrame = Some(b.config), !.clicks = @ + 1]
  /\ UNCHANGED <<utilVars, loaderVars, legacy, cardFlip, storage, debounced>>

\* What the user has typed into the form.
TypedLines ==
  { <<>>, <<" ">>, <<"a">>, <<" ", "a", " ">>, <<"a", " ", "b">> }

TypedMessages == UNION { [1..n -> TypedLines] : n \in 1..MaxLines }

TypedTitles == { <<>>, <<" ", "3", "C", " ", "b", " ">> }

\* Calls of buildConfig in this browser before the page was opened; they
\* left their count in localStorage.
EarlierBuilds == {0, 9, 99}

StoredCount(n) == IF n = 0 THEN None ELSE Some(DecimalString(n))

EditorInit ==
  /\ LoaderUnused
  /\ legacy = LegacyUnstarted
  /\ cardFlip = GameUnmounted
  /\ storage = StorageEmpty
  /\ debounced = DebounceIdle
  /\ stateManager = StateManagerMade
  /\ chunker = ChunkNotCalled
  /\ \E t \in TypedTitles, th \in {"", "theme2"}, m \in TypedMessages,
        n \in EarlierBuilds :
       editor = [EditorBlank EXCEPT !.gameTitle = t,
                                    !.themeSelect = th,
                                    !.cardMessages = m,
                                    !.earlierBuilds = n,
                                    !.localStorage = StoredCount(n)]

EditorNext ==
  \/ GenerateConfigClick
  \/ GenerateClick
  \/ SaveLocalClick
  \/ PreviewClick

EditorSpec == EditorInit /\ [][EditorNext]_vars

--------------------------------------------------------------------------
(* admin/editor.js: StorageUtils *)

\* JSON values: the type and, for that type, the value.
JNull == [t |-> "null", b |-> FALSE, n |-> 0, s |-> <<>>, items |-> <<>>]
JBool(b) == [JNull EXCEPT !.t = "bool", !.b = b]
JNum(n) == [JNull EXCEPT !.t = "num", !.n = n]
JStr(chars) == [JNull EXCEPT !.t = "str", !.s = chars]
JArr(items) == [JNull EXCEPT !.t = "arr", !.items = items]

RECURSIVE JsonStringify(_)
RECURSIVE JoinItems(_)
JoinItems(items) ==
  IF items = <<>> THEN <<>>
  ELSE IF Len(items) = 1 THEN JsonStringify(items[1])
  ELSE JsonStringify(items[1]) \o <<",">> \o JoinItems(Tail(items))

\* JSON.stringify: the text of a JSON value.
JsonStringify(value) ==
  CASE value.t = "null" -> <<"null">>
    [] value.t = "bool" -> IF value.b THEN <<"true">> ELSE <<"false">>
    [] value.t = "num" -> DecimalString(value.n)
    [] value.t = "str" -> <<"\"">> \o value.s \o <<"\"">>
    [] value.t = "arr" -> <<"[">> \o JoinItems(value.items) \o <<"]">>

FirstComma(text) ==
  IF \E i \in 1..Len(text) : text[i] = ","
    THEN CHOOSE i \in 1..Len(text) :
           text[i] = "," /\ \A j \in 1..(i - 1) : text[j] # ","
    ELSE Len(text) + 1

RECURSIVE JsonParse(_)
RECURSIVE ParseItems(_)
ParseItems(text) ==
  IF text = <<>> THEN <<>>
  ELSE <<JsonParse(SubSeq(text, 1, FirstComma(text) - 1))>>
       \o ParseItems(SubSeq(text, FirstComma(text) + 1, Len(text)))

\* JSON.parse of a text JSON.stringify wrote.
JsonParse(text) ==
  CASE text = <<"null">> -> JNull
    [] text = <<"true">> -> JBool(TRUE)
    [] text = <<"false">> -> JBool(FALSE)
    [] Head(text) = "\"" -> JStr(SubSeq(text, 2, Len(text) - 1))
    [] Head(text) = "[" -> JArr(ParseItems(SubSeq(text, 2, Len(text) - 1)))
    [] OTHER -> JNum(ParseInt(text))

\* Truthiness of a JSON value in JavaScript.
JsTruthy(value) ==
  CASE value.t = "null" -> FALSE
    [] value.t = "bool" -> value.b
    [] value.t = "num" -> value.n # 0
    [] value.t = "str" -> value.s # <<>>
    [] value.t = "arr" -> TRUE

\* Map: set keeps the place of a key it holds and adds a new key at the end.
MapHas(entries, key) == \E i \in 1..Len(entries) : entries[i].key = key

MapSet(entries, key, value) ==
  IF MapHas(entries, key)
    THEN [i \in 1..Len(entries) |->
            IF entries[i].key = key THEN [key |-> key, value |-> value] ELSE entries[i]]
    ELSE Append(entries, [key |-> key, value |-> value])

MapGet(entries, key) ==
  IF MapHas(entries, key)
    THEN Some(entries[CHOOSE i \in 1..Len(entries) : entries[i].key = key].value)
    ELSE None

MapDelete(entries, key) == SelectSeq(entries, LAMBDA en : en.key # key)

\* Fault: the parsed value decides, so a falsy value reads as missing.
GetItemIfValueTruthy(entries, key, defaultValue) ==
  LET value == MapGet(entries, key)
  IN IF value # None /\ JsTruthy(JsonParse(value[1]))
       THEN JsonParse(value[1])
       ELSE defaultValue

\* getItem: value ? JSON.parse(value) : defaultValue, on the stored text.
GetItem(entries, key, defaultValue) ==
  LET value == MapGet(entries, key)
  IN IF value # None /\ value[1] # <<>>
       THEN JsonParse(value[1])
       ELSE defaultValue

\* keys()
Keys(entries) == [i \in 1..Len(entries) |-> entries[i].key]

StorageKeys == {"a", "b"}

StoredValues ==
  { JNull, JBool(FALSE), JNum(0), JStr(<<>>), JArr(<<JNum(0), JStr(<<"a">>)>>) }

DefaultValues == { JNull, JStr(<<"d">>) }

Written(call) ==
  [storage EXCEPT !.calls = Append(@, call), !.lastGet = None, !.lastKeys = None]

SetItem ==
  /\ Len(storage.calls) < MaxWrites
  /\ \E key \in StorageKeys, value \in StoredValues :
       storage' =
         [Written([op |-> "setItem", key |-> key, value |-> value])
            EXCEPT !._storage = MapSet(@, key, JsonStringify(value))]
  /\ UNCHANGED <<utilVars, loaderVars, legacy, cardFlip, editor, debounced>>

RemoveItem ==
  /\ Len(storage.calls) < MaxWrites
  /\ \E key \in StorageKeys :
       storage' =
         [Written([op |-> "removeItem", key |-> key, value |-> JNull])
            EXCEPT !._storage = MapDelete(@, key)]
  /\ UNCHANGED <<utilVars, loaderVars, legacy, cardFlip, editor, debounced>>

Clear ==
  /\ Len(storage.calls) < MaxWrites
  /\ storage' =
       [Written([op |-> "clear", key |-> "", value |-> JNull])
          EXCEPT !._storage = <<>>]
  /\ UNCHANGED <<utilVars, loaderVars, legacy, cardFlip, editor, debounced>>

\* A call of getItem and what it returned, kept until the next call.
GetItemCall ==
  /\ \E key \in StorageKeys, defaultValue \in DefaultValues :
       storage' =
         [storage EXCEPT
            !.lastKeys = None,
            !.lastGet =
              Some([key |-> key, defaultValue |-> defaultValue,
                    returned |-> GetItem(storage._storage, key, defaultValue)])]
  /\ UNCHANGED <<utilVars, loaderVars, legacy, cardFlip, editor, debounced>>

\* A call of keys and what it returned.
KeysCall ==
  /\ storage' = [storage EXCEPT !.lastGet = None,
                                !.lastKeys = Some(Keys(storage._storage))]
  /\ UNCHANGED <<utilVars, loaderVars, legacy, cardFlip, editor, debounced>>

StorageInit == GameInit

StorageNext ==
  \/ SetItem
  \/ RemoveItem
  \/ Clear
  \/ GetItemCall
  \/ KeysCall

StorageSpec == StorageInit /\ [][StorageNext]_vars

--------------------------------------------------------------------------
(* admin/editor.js: PerformanceUtils.debounce *)

CallArgs == {"x", "y"}

\* Fault: the timer set before stays set.
ClearTimeoutIgnored(timers, id) == timers

\* clearTimeout(id): undefined and ids of timers that have run clear nothing.
ClearTimeout(timers, id) ==
  IF id = None THEN timers
  ELSE SelectSeq(timers, LAMBDA t : t.id # id[1])

\* A call of the function debounce returned: executedFunction(...args).
ExecutedFunction ==
  /\ debounced.calls < MaxCalls
  /\ \E args \in CallArgs :
       LET id == debounced.calls + 1
       IN debounced' =
            [timeout |-> Some(id),
             timers |-> Append(ClearTimeout(debounced.timers, debounced.timeout),
                               [id |-> id, args |-> args]),
             events |-> Append(debounced.events,
                               [kind |-> "call", id |-> id, args |-> args]),
             calls |-> id]
  /\ UNCHANGED <<utilVars, loaderVars, legacy, cardFlip, editor, storage>>

\* The timer due first runs later(); the timers have the same wait, so
\* they are due in the order they were set.
LaterRuns ==
  /\ debounced.timers # <<>>
  /\ LET due == Head(debounced.timers)
     IN debounced' =
          [debounced EXCEPT
             !.timers = ClearTimeout(Tail(debounced.timers), debounced.timeout),
             !.events = Append(@, [kind |-> "invoke", id |-> due.id, args |-> due.args])]
  /\ UNCHANGED <<utilVars, loaderVars, legacy, cardFlip, editor, storage>>

DebounceInit == GameInit

DebounceNext ==
  \/ ExecutedFunction
  \/ LaterRuns

DebounceSpec == DebounceInit /\ [][DebounceNext]_vars

\* The event loop runs every timer that is due.
DebounceFairSpec == DebounceSpec /\ WF_vars(LaterRuns)

--------------------------------------------------------------------------
(* admin/editor.js: GameStateUtils.createStateManager *)

\* listeners.indexOf(listener), 0 for -1
IndexOf(array, item) ==
  IF \E i \in 1..Len(array) : array[i] = item
    THEN CHOOSE i \in 1..Len(array) :
           array[i] = item /\ \A j \in 1..(i - 1) : array[j] # item
    ELSE 0

\* The function subscribe returned for a listener: indexOf and splice.
UnsubscribeFrom(array, listener) ==
  LET index == IndexOf(array, listener)
  IN IF index > 0
       THEN SubSeq(array, 1, index - 1) \o SubSeq(array, index + 1, Len(array))
       ELSE array

\* listeners.forEach from index k on: the length is read once, the element
\* at each index is read when its turn comes. does[l] is what listener l
\* does when it is invoked: 0 nothing, t the unsubscribe function of t.
RECURSIVE ForEach(_, _, _, _, _, _)
ForEach(array, k, len, does, invoked, unsubscribed) ==
  IF k > len
    THEN [listeners |-> array, invoked |-> invoked, unsubscribed |-> unsubscribed]
  ELSE IF k > Len(array)
    THEN ForEach(array, k + 1, len, does, invoked, unsubscribed)
  ELSE LET l == array[k]
           t == does[l]
       IN IF t \in 1..Len(does)
            THEN ForEach(UnsubscribeFrom(array, t), k + 1, len, does,
                         Append(invoked, l), unsubscribed \cup {t})
            ELSE ForEach(array, k + 1, len, does, Append(invoked, l), unsubscribed)

Notified(by, state, prevState) ==
  LET run == ForEach(stateManager.listeners, 1, Len(stateManager.listeners),
                     stateManager.does, <<>>, stateManager.unsubscribed)
  IN [stateManager EXCEPT
        !.state = state,
        !.listeners = run.listeners,
        !.unsubscribed = run.unsubscribed,
        !.lastNotify =
          Some([by |-> by,
                atStart |-> stateManager.listeners,
                unsubscribedAtStart |-> stateManager.unsubscribed,
                invoked |-> run.invoked,
                args |-> [state |-> state, prevState |-> prevState]])]

\* subscribe(listener)
Subscribe ==
  /\ Len(stateManager.does) < MaxListeners
  /\ \E t \in 0..MaxListeners :
       stateManager' =
         [stateManager EXCEPT
            !.listeners = Append(@, Len(stateManager.does) + 1),
            !.does = Append(@, t),
            !.lastNotify = None]
  /\ UNCHANGED <<loaderVars, legacy, cardFlip, editor, storage, debounced, chunker>>

\* A call, outside a notification, of the function subscribe returned.
Unsubscribe ==
  /\ \E l \in 1..Len(stateManager.does) :
       stateManager' =
         [stateManager EXCEPT
            !.listeners = UnsubscribeFrom(@, l),
            !.unsubscribed = @ \cup {l},
            !.lastNotify = None]
  /\ UNCHANGED <<loaderVars, legacy, cardFlip, editor, storage, debounced, chunker>>

\* setState(newState): newState is {} or {score: v}.
SetState ==
  /\ \E newState \in {None, Some(0), Some(1)} :
       stateManager' =
         Notified("setState",
                  IF newState = None THEN stateManager.state ELSE newState[1],
                  Some(stateManager.state))
  /\ UNCHANGED <<loaderVars, legacy, cardFlip, editor, storage, debounced, chunker>>

\* reset()
Reset ==
  /\ stateManager' = Notified("reset", StateManagerMade.state, None)
  /\ UNCHANGED <<loaderVars, legacy, cardFlip, editor, storage, debounced, chunker>>

StateManagerInit == GameInit

StateManagerNext ==
  \/ Subscribe
  \/ Unsubscribe
  \/ SetState
  \/ Reset

StateManagerSpec == StateManagerInit /\ [][StateManagerNext]_vars

--------------------------------------------------------------------------
(* admin/editor.js: ArrayUtils.chunk *)

Min(a, b) == IF a < b THEN a ELSE b
Max(a, b) == IF a > b THEN a ELSE b

\* Array.prototype.slice(start, end): a negative index counts from the end,
\* both are clamped to the array.
Slice(array, start, end) ==
  LET len == Len(array)
      from == IF start < 0 THEN Max(len + start, 0) ELSE Min(start, len)
      to == IF end < 0 THEN Max(len + end, 0) ELSE Min(end, len)
  IN IF from >= to THEN <<>> ELSE SubSeq(array, from + 1, to)

ChunkArrays == UNION { [1..n -> {"a", "b"}] : n \in 0..MaxArrayLen }

ChunkSizes == -1..MaxChunkSize

\* chunk(array, size) is called: chunks = [] and i = 0.
ChunkCalled ==
  /\ chunker.status = "idle"
  /\ \E array \in ChunkArrays, size \in ChunkSizes :
       chunker' = [array |-> array, size |-> size, i |-> 0, chunks |-> <<>>,
                   status |-> "looping"]
  /\ UNCHANGED <<loaderVars, legacy, cardFlip, editor, storage, debounced, stateManager>>

\* The test of the for loop and, when it holds, one pass: push the slice,
\* i += size. A push the memory has no room for ends the call without a
\* return.
ChunkLoop ==
  /\ chunker.status = "looping"
  /\ chunker' =
       IF ~(chunker.i < Len(chunker.array))
         THEN [chunker EXCEPT !.status = "returned"]
       ELSE IF Len(chunker.chunks) >= MaxChunks
         THEN [chunker EXCEPT !.status = "exhausted"]
       ELSE [chunker EXCEPT
               !.chunks = Append(@, Slice(chunker.array, chunker.i,
                                          chunker.i + chunker.size)),
               !.i = @ + chunker.size]
  /\ UNCHANGED <<loaderVars, legacy, cardFlip, editor, storage, debounced, stateManager>>

ChunkInit == GameInit

ChunkNext ==
  \/ ChunkCalled
  \/ ChunkLoop

ChunkSpec == ChunkInit /\ [][ChunkNext]_vars

\* A call that is running goes on running.
ChunkFairSpec == ChunkSpec /\ WF_vars(ChunkLoop)

\* The script calls initialize as it loads; the fetch, response.json() and
\* the import are taken to settle.
FairSpec ==
  /\ Spec
  /\ WF_vars(Initialize)
  /\ WF_vars(FetchSettles)
  /\ WF_vars(JsonSettles)
  /\ WF_vars(ImportSettles)

--------------------------------------------------------------------------
(* The order of the steps *)

LastLog == log[Len(log)]

\* C1: the log of one initialize run reads fetchConfig, validateConfig,
\* applyTheme, loadGameModule, initializeGame in this order, each step's start
\* directly followed by its own end and each start after the first directly
\* preceded by the successful end of the step before it; an end that is a
\* failure is the last entry of the log, so no step starts after a failure.
C1_StepsInOrder ==
  /\ Len(log) <= 2 * Len(Steps)
  /\ \A i \in 1..Len(log) :
       /\ log[i][1] = Steps[(i + 1) \div 2]
       /\ (i % 2 = 1) => log[i][2] = "start"
       /\ (i % 2 = 0) => log[i][2] \in {"ok", "fail"}
       /\ (log[i][2] = "fail") => i = Len(log)
  /\ (pc = "failed") <=> (log # <<>> /\ LastLog[2] = "fail")

\* A run that validation stopped: applyTheme and the later steps never started.
C1_Witness ==
  /\ pc = "failed"
  /\ log = <<Started("fetchConfig"), Ended("fetchConfig", FALSE),
             Started("validateConfig"), Ended("validateConfig", TRUE)>>

\* C2: whenever the fetched configuration has no gameType or an empty one,
\* the run is Failed and nothing of the later stages has happened: the body's
\* background and --card-back are unset, no image was requested, nothing was
\* imported and startGame was not called.
C2_NoGameTypeNoLaterStage ==
  (config # None /\ Get(config[1].value, "gameType") \in {None, Some("")}) =>
    /\ pc = "failed"
    /\ caught # None
    /\ bodyBackground = None
    /\ cardBack = None
    /\ \A i \in 1..2 : img[i] = NoImage
    /\ imports = <<>>
    /\ startGameCalls = <<>>

\* A configuration with a theme and an empty gameType was served and refused.
C2_Witness ==
  /\ config # None
  /\ ~config[1].isNull
  /\ Get(config[1].value, "gameType") = Some("")
  /\ Get(config[1].value, "theme") = Some("theme1")
  /\ pc = "failed"

\* C3: the run fetches exactly once: the configUrl parameter itself when it
\* holds a value, and otherwise config/<configName>.json, with card-flip for
\* a configName that holds none; with a configUrl no named path is fetched,
\* whatever the fetch of the configUrl ends with.
C3_FetchedUrl ==
  LET name == IF configName # None /\ configName[1] # ""
                THEN configName[1] ELSE "card-flip"
      expected == IF configUrl # None /\ configUrl[1] # ""
                    THEN <<configUrl[1]>>
                    ELSE <<"config/", name, ".json">>
  IN /\ (pc = "idle") => fetches = <<>>
     /\ (pc # "idle") => fetches = <<expected>>

\* The fetch of the configUrl failed with a configName given too, and the
\* configUrl is all that was fetched.
C3_Witness ==
  /\ pc = "failed"
  /\ configUrl = Some("blob:preview")
  /\ configName = Some("daily")
  /\ response # None
  /\ response[1].status = 404
  /\ fetches = << <<"blob:preview">> >>

--------------------------------------------------------------------------
(* Failures *)

HttpFailure ==
  response # None /\ ~response[1].rejected
  /\ ~(response[1].status >= 200 /\ response[1].status <= 299)

\* C4: when the configuration fetch was answered with 404, the message of
\* the error view is the missing-files message.
C4_NotFoundShowsMissingFiles ==
  (pc = "failed" /\ response # None /\ response[1].status = 404) =>
    container[1].message = MissingMessage

\* C5: once a step has failed the run is Failed, the orchestrator holds the
\* error, and the container's only child is the error view: no loading view
\* and nothing a game rendered.
C5_FailureEndsInErrorView ==
  /\ (log # <<>> /\ LastLog[2] = "fail") =>
       /\ pc = "failed"
       /\ caught # None
       /\ Len(container) = 1
       /\ container[1].kind = "error"
  /\ (response # None /\ (response[1].rejected \/ HttpFailure)) => pc = "failed"
  /\ (imported # None /\ imported[1].rejected) => pc = "failed"

\* startGame of card-flip.js threw after it had added its title.
C5_Witness ==
  /\ pc = "failed"
  /\ LastLog = Ended("initializeGame", TRUE)
  /\ imported[1].module = "card-flip"
  /\ container[1].kind = "error"

\* C6: in Failed the error view shows one of the four messages: the
\* configuration message exactly for a ConfigError, the missing-files message
\* only for a message with "not found", the network message only for one with
\* "network", the generic message only when none of these applies; and its
\* technical detail is the caught error's message.
C6_CategoryAndDetail ==
  (pc = "failed") =>
    LET e == caught[1]
        view == container[1]
    IN /\ view.message \in {ConfigMessage, MissingMessage, NetworkMessage, GenericMessage}
       /\ (view.message = ConfigMessage) <=> (e.name = "ConfigError")
       /\ (view.message = MissingMessage) => Includes(e.message, "not found")
       /\ (view.message = NetworkMessage) => Includes(e.message, "network")
       /\ (view.message = GenericMessage) =>
            /\ ~Includes(e.message, "not found")
            /\ ~Includes(e.message, "network")
       /\ view.details = Some(e.message)

\* A module without startGame for the game type network-quiz: the network
\* message, chosen from the text of the error.
C6_Witness ==
  /\ pc = "failed"
  /\ container[1].message = NetworkMessage
  /\ container[1].details = Some(caught[1].message)

ErrorKind(e) == <<e.name, e.type>>

\* C7: the error of a fetch answered with a non-success status holds that
\* status, and the error of a parse failure is of another kind than the error
\* of any failed fetch.
C7_FetchAndParseErrorsDiffer ==
  /\ (pc = "failed" /\ HttpFailure) =>
       Includes(caught[1].message, ToString(response[1].status))
  /\ (pc = "failed" /\ response # None /\ config = None /\ ~response[1].rejected
      /\ ~HttpFailure) =>
       \A resp \in Responses :
         LET r == FetchConfigFromUrlOrName(configUrl, configName, resp)
         IN r.threw => ErrorKind(r.err[1]) # ErrorKind(caught[1])

\* C8: a rejected import ends in the module-not-found error, a module
\* without startGame in the missing-startGame error, and startGame is only
\* called on a module that has it.
C8_ModuleErrors ==
  /\ (imported # None /\ imported[1].rejected) =>
       /\ pc = "failed"
       /\ caught[1].message =
            <<"Game module '", config[1].value.gameType, ".js' ", "not found">>
  /\ (imported # None /\ ~imported[1].rejected
      /\ imported[1].module \notin {"card-flip", "alert-cards"}) =>
       /\ pc = "failed"
       /\ caught[1].message =
            <<"Game module '", config[1].value.gameType, "' missing startGame function">>
  /\ (startGameCalls # <<>>) =>
       imported[1].module \in {"card-flip", "alert-cards"}

\* C9: startGame receives the container empty and nothing of the loading
\* views is left after it; when startGame throws (the configuration has no
\* cards) the run is Failed with the error "Failed to initialize game: "
\* followed by the message startGame threw.
C9_InitializeGame ==
  /\ \A i \in 1..Len(startGameCalls) : startGameCalls[i] = <<>>
  /\ (pc = "running") =>
       \A j \in 1..Len(container) : container[j].kind \in {"title", "wrapper"}
  /\ (startGameCalls # <<>> /\ "cards" \notin DOMAIN config[1].value) =>
       /\ pc = "failed"
       /\ caught[1].name = "Error"
       /\ caught[1].message =
            <<"Failed to initialize game: ",
              "Cannot read properties of undefined (reading 'forEach')">>
       /\ container[1].kind = "error"
  /\ (startGameCalls # <<>> /\ "cards" \in DOMAIN config[1].value) => pc = "running"

\* card-flip.js rendered its title and two cards into the emptied container.
C9_Witness ==
  /\ pc = "running"
  /\ imported[1].module = "card-flip"
  /\ startGameCalls = << <<>> >>
  /\ Len(container) = 2
  /\ Len(container[2].cards) = 2

\* C10: the import of the game module is not started while an image of the
\* theme is still loading.
C10_ImportAfterPreloads ==
  (imports # <<>>) => \A i \in 1..2 : img[i].state # "pending"

--------------------------------------------------------------------------
(* The theme *)

ThemeOf(cfg) == IF "theme" \in DOMAIN cfg THEN cfg.theme ELSE ""

\* C11: preloadThemeAssets has run to its end exactly when each of the two
\* images has loaded or failed, whichever way and in whichever order; the
\* settling of an image, failure included, changes nothing of the run (its
\* position, the error it caught, the container, the log), and applyTheme is
\* never logged as failed.
C11_PreloadBestEffort ==
  /\ [](preloadLogged <=> \A i \in 1..2 : img[i].state \in {"loaded", "failed"})
  /\ [](\A k \in 1..Len(log) : log[k] # <<"applyTheme", "fail">>)
  /\ [][(\E i \in 1..2 : img[i].state = "pending" /\ img'[i].state # "pending") =>
          /\ pc' = pc
          /\ caught' = caught
          /\ container' = container
          /\ log' = log]_vars

\* The first image failed, the second loaded, and the game runs.
C11_Witness ==
  /\ img[1].state = "failed"
  /\ img[2].state = "loaded"
  /\ preloadLogged
  /\ pc = "running"

\* C12: once a configuration has passed validation, the module import has
\* been started, and the page holds what applyTheme was to leave: for a theme
\* that is absent or empty the background and --card-back are unset and no
\* image was requested; for a theme name they are url('assets/themes/<theme>/
\* bg.png') and url('assets/themes/<theme>/card-back.png'), and both files
\* were requested.
C12_ApplyTheme ==
  (config # None /\ Get(config[1].value, "gameType") \notin {None, Some("")}) =>
    LET theme == ThemeOf(config[1].value)
    IN /\ imports = << <<"./games/", config[1].value.gameType, ".js">> >>
       /\ (theme = "") =>
            /\ bodyBackground = None
            /\ cardBack = None
            /\ \A i \in 1..2 : img[i] = NoImage
       /\ (theme # "") =>
            /\ bodyBackground =
                 Some(<<"url('", "assets/themes/", theme, "/", "bg.png", "')">>)
            /\ cardBack =
                 Some(<<"url('", "assets/themes/", theme, "/", "card-back.png", "')">>)
            /\ img[1].src = <<"assets/themes/", theme, "/", "bg.png">>
            /\ img[2].src = <<"assets/themes/", theme, "/", "card-back.png">>

\* A configuration with the empty theme name went on to the module import.
C12_Witness ==
  /\ pc = "importing"
  /\ Get(config[1].value, "theme") = Some("")
  /\ bodyBackground = None
  /\ imports # <<>>

\* C13: a run fetches, imports and calls startGame at most once each, and a
\* step taken in Failed leaves the run in Failed with its fetches, imports,
\* startGame calls, log, caught error and container as they were.
C13_NoRetry ==
  /\ [](Len(fetches) <= 1 /\ Len(imports) <= 1 /\ Len(startGameCalls) <= 1)
  /\ [][(pc = "failed") =>
          /\ pc' = "failed"
          /\ fetches' = fetches
          /\ imports' = imports
          /\ startGameCalls' = startGameCalls
          /\ log' = log
          /\ caught' = caught
          /\ container' = container]_vars

\* After the failure of the import an image of the theme is still to settle:
\* a step can be taken in Failed.
C13_Witness ==
  /\ pc = "failed"
  /\ Len(fetches) = 1
  /\ Len(imports) = 1
  /\ startGameCalls = <<>>
  /\ img[1].state = "pending"

--------------------------------------------------------------------------
(* Termination *)

\* C14: with the fetch, the parse and the import settling, the run reaches
\* Running or Failed; it stays in the one it reached, and in Running the
\* container keeps what the game rendered: no later step writes a loading
\* view or an error view over it.
C14_ReachesOneTerminalState ==
  /\ <>(pc \in {"running", "failed"})
  /\ [](pc = "running" =>
          /\ caught = None
          /\ \A j \in 1..Len(container) : container[j].kind \in {"title", "wrapper"})
  /\ [][(pc = "running") => (pc' = "running" /\ container' = container)]_vars
  /\ [][(pc = "failed") => pc' = "failed"]_vars

\* The game runs and both images have settled since: steps were taken in
\* Running.
C14_Witness ==
  /\ pc = "running"
  /\ preloadLogged
  /\ Len(container) = 2

--------------------------------------------------------------------------
(* Rendering *)

Wrapper == container[Len(container)]

\* The message a click on the card element brings up: the text of its
\* front face, or the text its click handler alerts.
Reveals(card) ==
  IF card.alerts # None THEN card.alerts[1] ELSE HtmlText(card.front)

\* C15, as stated: every game module renders one card element per entry of
\* cards, in input order, and the i-th element carries the i-th entry's id
\* and message.
C15_IdAndMessageOnEveryCard ==
  (pc = "running") =>
    /\ Len(Wrapper.cards) = Len(config[1].value.cards)
    /\ \A i \in 1..Len(Wrapper.cards) :
         /\ Wrapper.cards[i].dataId = Some(config[1].value.cards[i].id)
         /\ Reveals(Wrapper.cards[i]) = config[1].value.cards[i].message

\* C15, amended: every game module renders one card element per entry of
\* cards, in input order, for every length including zero, and the i-th
\* element reveals the i-th entry's message; the element of
\* games/card-flip.js carries the entry's id as data-id, the element of
\* the alert variant in main.js carries no id.
C15_OneCardPerEntryInOrder ==
  (pc = "running") =>
    /\ Len(Wrapper.cards) = Len(config[1].value.cards)
    /\ \A i \in 1..Len(Wrapper.cards) :
         /\ Reveals(Wrapper.cards[i]) = config[1].value.cards[i].message
         /\ Wrapper.cards[i].dataId =
              IF imported[1].module = "card-flip"
                THEN Some(config[1].value.cards[i].id)
                ELSE None

\* card-flip.js rendered entry 2, whose message holds markup, before entry 1.
C15_Witness ==
  /\ pc = "running"
  /\ imported[1].module = "card-flip"
  /\ Len(Wrapper.cards) = 2
  /\ Wrapper.cards[1].dataId = Some(2)
  /\ Wrapper.cards[2].dataId = Some(1)
  /\ Wrapper.cards[1].front = <<"a", "&lt;", "b">>

--------------------------------------------------------------------------
(* Failures of the configuration fetch *)

FetchConfigFailed == \E k \in 1..Len(log) : log[k] = <<"fetchConfig", "fail">>

\* C22: a failure of fetchConfigFromUrlOrName (a status that is not a
\* success, a rejected fetch, a body that does not parse) is caught as a
\* ConfigError and shown with the configuration message, whatever its text
\* holds; the missing-files and the network message are shown only when a
\* later step failed.
C22_FetchFailuresAreConfigErrors ==
  /\ FetchConfigFailed =>
       /\ pc = "failed"
       /\ caught[1].name = "ConfigError"
       /\ container[1].message = ConfigMessage
  /\ (response # None /\ (response[1].rejected \/ HttpFailure)) => FetchConfigFailed
  /\ (pc = "failed" /\ config = None) => FetchConfigFailed
  /\ (pc = "failed" /\ container[1].message \in {MissingMessage, NetworkMessage}) =>
       /\ ~FetchConfigFailed
       /\ \E k \in 1..Len(log) : log[k] = <<"fetchConfig", "ok">>

\* The named file was answered with 404: the error says "not found" and the
\* view shows the configuration message.
C22_Witness ==
  /\ pc = "failed"
  /\ response # None /\ response[1].status = 404
  /\ configUrl = None
  /\ Includes(caught[1].message, "not found")
  /\ container[1].message = ConfigMessage

--------------------------------------------------------------------------
(* Sessions *)

LoaderActive == pc \in {"fetching", "parsing", "importing"}
LegacyActive == legacy.pc \in {"fetching", "importing"}

\* C16: at most one loader run is active at a time, and the container shows
\* what one run wrote: in Running exactly what the GameLoader run's game
\* rendered into the emptied container, in Failed its error view.
C16_OneActiveSession ==
  /\ ~(LoaderActive /\ LegacyActive)
  /\ (pc = "running") =>
       container = StartGame(imported[1].module, config[1].value, <<>>).container
  /\ (pc = "failed") => container[1].kind = "error"

--------------------------------------------------------------------------
(* Flipping *)

Flipped(i) ==
  /\ i <= Len(CardElements(container))
  /\ CardElements(container)[i].flipped

HasTimer(i) == \E k \in 1..Len(cardFlip.timers) : cardFlip.timers[k].card = i

\* settings.stayOpen of the running game is true.
StaysOpen ==
  /\ cardFlip.config # None
  /\ Get(cardFlip.config[1], "settings") # None
  /\ Get(cardFlip.config[1].settings, "stayOpen") = Some(TRUE)

\* C17: a click on a card flips it; with stayOpen false or absent a flipped
\* card has a pending unflip timer and is unflipped in the end; with
\* stayOpen true no step unflips a flipped card.
C17_FlipAndUnflip ==
  /\ [][\A i \in 1..MaxCards : ClickCard(i) => Flipped(i)']_vars
  /\ [](\A i \in 1..MaxCards : (Flipped(i) /\ ~StaysOpen) => HasTimer(i))
  /\ \A i \in 1..MaxCards : (Flipped(i) /\ ~StaysOpen) ~> ~Flipped(i)
  /\ [][\A i \in 1..MaxCards : (Flipped(i) /\ StaysOpen) => Flipped(i)']_vars

\* Without settings, the second card was clicked twice and the first timer
\* has fired: the card is unflipped and the later timer is pending.
C17_Witness ==
  /\ cardFlip.config # None
  /\ "settings" \notin DOMAIN cardFlip.config[1]
  /\ cardFlip.clicks = 2
  /\ cardFlip.timers = << [card |-> 2, delay |-> DefaultDisplayMs] >>
  /\ ~Flipped(2)

\* C21: with stayOpen false a card stays flipped until the timer of the
\* click that flipped it runs: while a timer set by a click on a card is
\* pending, the card is flipped, so the timer of an earlier click does not
\* unflip a card that was clicked again.
C21_FlippedUntilOwnTimer ==
  \A i \in 1..MaxCards : HasTimer(i) => Flipped(i)

--------------------------------------------------------------------------
(* The editor's output *)

\* Every configuration the editor has handed out.
Built ==
  { editor.downloads[k].content : k \in 1..Len(editor.downloads) }
  \cup { editor.previewFrame[k] : k \in 1..Len(editor.previewFrame) }

FromFirstListener ==
  { editor.downloads[k].content :
      k \in { j \in 1..Len(editor.downloads) :
                editor.downloads[j].filename = <<"card-flip.json">> } }

NonBlank(line) == \E i \in 1..Len(line) : ~IsSpace(line[i])

\* message is line without the white space at its ends.
IsTrimOf(message, line) ==
  /\ message # <<>>
  /\ ~IsSpace(message[1])
  /\ ~IsSpace(message[Len(message)])
  /\ \E a \in 0..Len(line) :
       /\ a + Len(message) <= Len(line)
       /\ SubSeq(line, a + 1, a + Len(message)) = message
       /\ \A i \in 1..Len(line) :
            (i <= a \/ i > a + Len(message)) => IsSpace(line[i])

MatchesSchema(cfg) ==
  /\ cfg.gameType = "card-flip"
  /\ \A i \in 1..Len(cfg.cards) : cfg.cards[i].id = i
  /\ ~ValidateConfig([parsed |-> TRUE, isNull |-> FALSE, value |-> cfg]).threw

OnePerNonBlankLineTrimmed(cfg) ==
  LET lines == SelectSeq(editor.cardMessages, NonBlank)
  IN /\ Len(cfg.cards) = Len(lines)
     /\ \A i \in 1..Len(lines) : IsTrimOf(cfg.cards[i].message, lines[i])

OnePerNonEmptyLineAsTyped(cfg) ==
  LET lines == SelectSeq(editor.cardMessages, LAMBDA l : l # <<>>)
  IN /\ Len(cfg.cards) = Len(lines)
     /\ \A i \in 1..Len(lines) : cfg.cards[i].message = lines[i]

\* C18, as stated: every configuration the editor builds has gameType
\* card-flip, one card per non-blank line of the messages input, in line
\* order, with ids 1..n and the trimmed line as message, and passes
\* validateConfig.
C18_EveryBuiltConfigTrimmed ==
  \A cfg \in Built : MatchesSchema(cfg) /\ OnePerNonBlankLineTrimmed(cfg)

\* C18, amended: every configuration the editor builds has gameType
\* card-flip and ids 1..n and passes validateConfig; the ones buildConfig
\* builds hold one card per non-blank line, in line order, with the trimmed
\* line as message; the ones the first click listener of #generateConfig
\* builds hold one card per non-empty line, in line order, with the line as
\* typed as message, so a line of white space is a card.
C18_BuiltConfigs ==
  /\ \A cfg \in Built : MatchesSchema(cfg)
  /\ \A cfg \in Built \ FromFirstListener : OnePerNonBlankLineTrimmed(cfg)
  /\ \A cfg \in FromFirstListener : OnePerNonEmptyLineAsTyped(cfg)

\* buildConfig made one card of a line of white space and a padded line.
C18_Witness ==
  /\ editor.cardMessages = << <<" ">>, <<" ", "a", " ">> >>
  /\ \E cfg \in Built \ FromFirstListener :
       /\ Len(cfg.cards) = 1
       /\ cfg.cards[1].message = <<"a">>

\* The counter in localStorage, 0 when the item is not there.
Counter ==
  IF editor.localStorage = None THEN 0 ELSE ParseInt(editor.localStorage[1])

\* The number in a game number: game-007 is 7.
NumberOf(gameNumber) == ParseInt(Tail(gameNumber))

\* C24: every call of buildConfig adds one to the counter in localStorage,
\* which is the number of calls of buildConfig ever made; the game numbers
\* built are strictly increasing, so no two are the same.
C24_GameNumbersUnique ==
  /\ [](Counter = editor.earlierBuilds + Len(editor.builds))
  /\ [](\A i, j \in 1..Len(editor.builds) :
          i < j => /\ editor.builds[i] # editor.builds[j]
                   /\ NumberOf(editor.builds[i]) < NumberOf(editor.builds[j]))
  /\ [](\A k \in 1..Len(editor.builds) :
          NumberOf(editor.builds[k]) = editor.earlierBuilds + k)
  /\ [][GenerateClick \/ SaveLocalClick \/ PreviewClick =>
          /\ Len(editor'.builds) = Len(editor.builds) + 1
          /\ Counter' = Counter + 1]_vars
  /\ [][GenerateConfigClick => Counter' = Counter]_vars

\* After nine earlier builds a preview and a download took the numbers 10
\* and 11.
C24_Witness ==
  /\ editor.earlierBuilds = 9
  /\ editor.builds = << <<"game-", "0", "1", "0">>, <<"game-", "0", "1", "1">> >>
  /\ editor.previewFrame # None
  /\ Len(editor.downloads) = 1
  /\ editor.localStorage = Some(<<"1", "1">>)

--------------------------------------------------------------------------
(* StorageUtils as a map *)

\* The value of the latest setItem(key, v) among calls that no later
\* removeItem(key) or clear() followed.
RECURSIVE Latest(_, _)
Latest(calls, key) ==
  IF calls = <<>> THEN None
  ELSE LET last == calls[Len(calls)]
       IN IF last.op = "clear" THEN None
          ELSE IF last.key = key
            THEN IF last.op = "setItem" THEN Some(last.value) ELSE None
            ELSE Latest(SubSeq(calls, 1, Len(calls) - 1), key)

\* C19: getItem(k, d) returns the value of the latest setItem(k, v) that no
\* removeItem(k) or clear() followed, falsy values included, and d when there
\* is none; keys() holds exactly the keys stored, each once.
C19_KeyValueMap ==
  /\ (storage.lastGet # None) =>
       LET g == storage.lastGet[1]
           latest == Latest(storage.calls, g.key)
       IN g.returned = IF latest # None THEN latest[1] ELSE g.defaultValue
  /\ (storage.lastKeys # None) =>
       LET ks == storage.lastKeys[1]
       IN /\ { ks[i] : i \in 1..Len(ks) } =
               { k \in StorageKeys : Latest(storage.calls, k) # None }
          /\ \A i, j \in 1..Len(ks) : ks[i] = ks[j] => i = j

\* After setItem("a", 0), setItem("b", v) and removeItem("b"), getItem
\* returned 0 for "a" though the default was "d".
C19_Witness ==
  /\ Len(storage.calls) = 3
  /\ storage.calls[1] = [op |-> "setItem", key |-> "a", value |-> JNum(0)]
  /\ storage.calls[2].op = "setItem" /\ storage.calls[2].key = "b"
  /\ storage.calls[3] = [op |-> "removeItem", key |-> "b", value |-> JNull]
  /\ storage.lastGet =
       Some([key |-> "a", defaultValue |-> JStr(<<"d">>), returned |-> JNum(0)])

--------------------------------------------------------------------------
(* Debouncing *)

LastEvent == debounced.events[Len(debounced.events)]

AwaitsInvocation == debounced.events # <<>> /\ LastEvent.kind = "call"

\* C20: each call cancels the invocation pending from the call before: at
\* most one timer is pending, and it is the last call's; func is invoked
\* only right after the call whose arguments it gets, so once for a burst
\* of calls, with the last call's arguments, and never with the arguments of
\* a call that another call followed; the last call of a burst is invoked in
\* the end.
C20_Debounce ==
  /\ [](Len(debounced.timers) <= 1)
  /\ [](IF AwaitsInvocation
          THEN debounced.timers = << [id |-> LastEvent.id, args |-> LastEvent.args] >>
          ELSE debounced.timers = <<>>)
  /\ [](\A k \in 1..Len(debounced.events) :
          debounced.events[k].kind = "invoke" =>
            /\ k > 1
            /\ debounced.events[k - 1] =
                 [kind |-> "call", id |-> debounced.events[k].id,
                  args |-> debounced.events[k].args])
  /\ AwaitsInvocation ~> ~AwaitsInvocation

\* A burst of two calls was invoked once, with the arguments of the second.
C20_Witness ==
  /\ Len(debounced.events) = 3
  /\ debounced.events[1] = [kind |-> "call", id |-> 1, args |-> "x"]
  /\ debounced.events[2] = [kind |-> "call", id |-> 2, args |-> "y"]
  /\ debounced.events[3] = [kind |-> "invoke", id |-> 2, args |-> "y"]
  /\ debounced.timers = <<>>

--------------------------------------------------------------------------
(* Listeners *)

\* C23: a setState or reset invokes every listener subscribed when it
\* starts, once each, in subscription order, whatever the listeners
\* unsubscribe meanwhile, and no listener whose unsubscribe function was
\* called before it started.
C23_ListenersNotified ==
  (stateManager.lastNotify # None) =>
    LET n == stateManager.lastNotify[1]
    IN /\ n.invoked = n.atStart
       /\ \A k \in 1..Len(n.invoked) : n.invoked[k] \notin n.unsubscribedAtStart

--------------------------------------------------------------------------
(* Chunking *)

RECURSIVE Concat(_)
Concat(chunks) ==
  IF chunks = <<>> THEN <<>> ELSE Head(chunks) \o Concat(Tail(chunks))

\* C25: a call of chunk returns, for every array and every size, zero and
\* negative sizes included; the chunks it returns, put together in order,
\* are the array, and none is longer than size.
C25_ChunkTerminates ==
  /\ (chunker.status = "looping") ~> (chunker.status = "returned")
  /\ [](chunker.status = "returned" =>
          /\ Concat(chunker.chunks) = chunker.array
          /\ \A k \in 1..Len(chunker.chunks) : Len(chunker.chunks[k]) <= chunker.size)

====
